---------------------------- MODULE Spec2Model ----------------------------
(***************************************************************************)
(* Streaming translation pipeline of the OpenAI-compatible proxy in front  *)
(* of the Claude CLI: StreamingResponse and StreamingManager (lib/         *)
(* streaming.js, kept as src/unnamed/part_000), ClaudeProcess.             *)
(* executeStreaming and streamToAsyncIterator (lib/claude-cli.js, kept in  *)
(* src/lib/router.js) and ChatHandler.handleStreamingRequest               *)
(* (src/api/chat.js).                                                      *)
(*                                                                         *)
(* Text is a sequence of tokens.  A token stands for one character, or for *)
(* one of the literal marker strings the regular expressions of            *)
(* filterContent look for.                                                 *)
(***************************************************************************)
EXTENDS Integers, Sequences, FiniteSets, TLC

VARIABLES
    closed,            \* StreamingResponse.closed
    sentData,          \* StreamingResponse.sentData
    frames,            \* the frames res.write has put on the transport, in order
    resEnded,          \* number of res.end() calls that went through
    transportFault,    \* history: the transport closed, errored or threw
    lastRet,           \* history: what the last write/writeChunk/writeError returned
    refused,           \* history: write was called on a closed session
    pc,                \* position of the request's async call chain
    proc,              \* the subprocess: its stdout and its exit
    lines,             \* executeStreaming: lines of the current fragment not yet yielded
    esChunkCount,      \* executeStreaming: chunkCount
    esBuffer,          \* executeStreaming: buffer.length
    roleSent,          \* processClaudeStream: roleSent
    contentSent,       \* processClaudeStream: contentSent
    assistantContent,  \* processClaudeStream: assistantContent
    chunkCount,        \* processClaudeStream: chunkCount
    err,               \* the error in flight or caught ("none" when there is none)
    returned,          \* what processClaudeStream returned (<<text>>, or <<>> before)
    streamedContent,   \* handleStreamingRequest: streamedContent
    emitted,           \* history: the fragments stdout emitted as 'data' events
    yielded,           \* history: the fragments streamToAsyncIterator yielded
    exitCode,          \* history: the exit code waitForExit saw (-1 before)
    endCalls,          \* history: who called StreamingResponse.end
    request,           \* the validated request ChatHandler.handle dispatches
    response,          \* the responses sendJSON has sent: <<[status, type]>>
    headersSent,       \* setupHeaders has sent the event-stream headers
    buffer,            \* execute: this.buffer, the stdout fragments so far
    errOutput,         \* the stdout text the error in flight carries in its message
    promptFile,        \* options.systemPromptFile: "none", "exists", "removed" or
                       \* "stuck" (it exists and an unlink of it has failed)
    isRunning,         \* ClaudeProcess.isRunning
    signals,           \* history: the signals the pipeline sent to the subprocess
    filterInput,       \* filterContent: the string it is first called on
    filtered,          \* filterContent: what its successive calls returned
    stdoutRun,         \* executeStreaming: the stdout text, its 'data' events, the chunks
    peers              \* concurrent requests: the state each of them owns

vars == <<closed, sentData, frames, resEnded, transportFault, lastRet, refused, pc, proc,
          lines, esChunkCount, esBuffer, roleSent, contentSent, assistantContent,
          chunkCount, err, returned, streamedContent, emitted, yielded, exitCode,
          endCalls, request, response, headersSent, buffer, errOutput, promptFile,
          isRunning, signals, filterInput, filtered, peers, stdoutRun>>

-----------------------------------------------------------------------------
(* Text.                                                                   *)

WS == {"sp", "nl"}

\* The token sequence of a string: the characters "<thin" followed by "king>"
\* are the opening marker of a reasoning block
RECURSIVE Lex(_)
Lex(s) ==
    IF Len(s) < 2 THEN s
    ELSE IF s[1] = "<thin" /\ s[2] = "king>"
         THEN <<"<thinking>">> \o Lex(SubSeq(s, 3, Len(s)))
         ELSE <<s[1]>> \o Lex(Tail(s))

\* String.prototype.trim
RECURSIVE TrimLeft(_)
TrimLeft(s) == IF s # <<>> /\ Head(s) \in WS THEN TrimLeft(Tail(s)) ELSE s

RECURSIVE TrimRight(_)
TrimRight(s) ==
    IF s # <<>> /\ s[Len(s)] \in WS THEN TrimRight(SubSeq(s, 1, Len(s) - 1)) ELSE s

Trim(s) == TrimRight(TrimLeft(s))

\* The index of the first token `close` after position i, 0 when there is none;
\* with dotAll = FALSE the search stops at a newline ('.' does not match it).
RECURSIVE FindClose(_, _, _, _)
FindClose(s, i, close, dotAll) ==
    IF i > Len(s) THEN 0
    ELSE IF s[i] = close THEN i
    ELSE IF ~dotAll /\ s[i] = "nl" THEN 0
    ELSE FindClose(s, i + 1, close, dotAll)

\* s.replace(/open ... close/g, '') with a lazy body
RECURSIVE RemoveSpans(_, _, _, _)
RemoveSpans(s, open, close, dotAll) ==
    IF s = <<>> THEN <<>>
    ELSE IF Head(s) = open /\ FindClose(s, 2, close, dotAll) # 0
         THEN RemoveSpans(SubSeq(s, FindClose(s, 2, close, dotAll) + 1, Len(s)),
                          open, close, dotAll)
         ELSE <<Head(s)>> \o RemoveSpans(Tail(s), open, close, dotAll)

\* The length of the run of whitespace that starts at position i
RECURSIVE WsRun(_, _)
WsRun(s, i) == IF i <= Len(s) /\ s[i] \in WS THEN 1 + WsRun(s, i + 1) ELSE 0

\* The number of newlines in s[i .. j]
RECURSIVE Newlines(_, _, _)
Newlines(s, i, j) ==
    IF i > j THEN 0 ELSE (IF s[i] = "nl" THEN 1 ELSE 0) + Newlines(s, i + 1, j)

\* The index of the last newline in s[i .. j] (there is one)
RECURSIVE LastNewline(_, _, _)
LastNewline(s, i, j) == IF s[j] = "nl" THEN j ELSE LastNewline(s, i, j - 1)

\* s.replace(/\n\s*\n\s*\n/g, '\n\n')
RECURSIVE CollapseNewlines(_)
CollapseNewlines_None(s) == s

CollapseNewlines(s) ==
    IF s = <<>> THEN <<>>
    ELSE IF Head(s) = "nl" /\ Newlines(s, 1, WsRun(s, 1)) >= 3
         THEN <<"nl", "nl">>
              \o CollapseNewlines(SubSeq(s, LastNewline(s, 1, WsRun(s, 1)) + 1, Len(s)))
         ELSE <<Head(s)>> \o CollapseNewlines(Tail(s))

filterContent(content) ==
    IF content = <<>> THEN content
    ELSE LET f1 == Lex(RemoveSpans(Lex(content), "<function_calls>", "</antml:function_calls>", TRUE))
             f2 == Lex(RemoveSpans(f1, "<thinking>", "</antml:thinking>", TRUE))
             f3 == Lex(RemoveSpans(f2, "[Tool Use:", "]", FALSE))
             f4 == Lex(RemoveSpans(f3, "[File: ", "]", FALSE))
         IN  Trim(CollapseNewlines(f4))


-----------------------------------------------------------------------------
(* JavaScript values.  A stdout line is text that is not JSON (Raw) or the *)
(* JSON value it holds.  Every value is a record that names its kind, so   *)
(* that a test of the kind comes before any field is read.                 *)

Absent == [k |-> "absent"]
Str(t) == [k |-> "string", text |-> t]
Num == [k |-> "number"]
Arr(bs) == [k |-> "array", blocks |-> bs]

NullBlock == [k |-> "null"]
StrBlock(t) == [k |-> "string", text |-> t]
\* {type, text, content, id, name, input}; "" and <<>> stand for a missing field.
\* content is a string; a content that is a list of blocks is the field nested.
Block(type, text, content, id, name, input) ==
    [k |-> "object", type |-> type, text |-> text, content |-> content,
     nested |-> <<>>, id |-> id, name |-> name, input |-> input]
NestedBlock(type, bs) == [Block(type, <<>>, <<>>, "", "", "") EXCEPT !.nested = bs]
TextBlock(t) == Block("text", t, <<>>, "", "", "")
ToolUseBlock(id, name, input) == Block("tool_use", <<>>, <<>>, id, name, input)

Message(c) == [k |-> "object", content |-> c]
Calls(cs) == [k |-> "array", calls |-> cs]
NotAnArray == [k |-> "object"]

Raw(t) == [j |-> "raw", text |-> t]
JNull == [j |-> "null"]
JNum == [j |-> "number"]
JStr(t) == [j |-> "string", text |-> t]
JObj(type, message, content, tool_calls) ==
    [j |-> "object", type |-> type, message |-> message, content |-> content,
     tool_calls |-> tool_calls]

\* JavaScript truthiness of a content value (numbers are taken non-zero)
Truthy(c) == c.k # "absent" /\ (c.k = "string" => c.text # <<>>)

\* A parsed chunk, as parseClaudeChunk returns it
Parsed(type, content, tool_calls, error) ==
    [type |-> type, content |-> content, tool_calls |-> tool_calls, error |-> error]
Thrown(msg) == Parsed("THROWN", Absent, <<>>, msg)
AssistantMessage(c) == Parsed("assistant_message", c, <<>>, "")

\* parseClaudeOutput with nothing to yield for a line that is not JSON
parseClaudeOutput_NoRawText(line) == IF line.j = "raw" THEN JNull ELSE line

\* ClaudeProcess.parseClaudeOutput: JSON.parse, and on failure the raw text
parseClaudeOutput(line) ==
    IF line.j = "raw" THEN JObj("text", Absent, Str(line.text), Absent) ELSE line

\* block.type === 'tool_use'; reading .type of null throws
IsToolUse(b) == b.k = "object" /\ b.type = "tool_use"

\* The filter keeping the first tool_use block only
ToolUseBlocks_First(bs) ==
    IF SelectSeq(bs, IsToolUse) = <<>> THEN <<>> ELSE <<Head(SelectSeq(bs, IsToolUse))>>

\* content.filter(block => block.type === 'tool_use')
ToolUseBlocks(bs) == SelectSeq(bs, IsToolUse)
FilterThrows(bs) == \E i \in 1..Len(bs) : bs[i].k = "null"

\* content.some(block => block.type === 'tool_use'): "true", "false" or "throw";
\* some() stops at the first tool_use block
RECURSIVE SomeToolUse(_)
SomeToolUse(bs) ==
    IF bs = <<>> THEN "false"
    ELSE IF Head(bs).k = "null" THEN "throw"
    ELSE IF IsToolUse(Head(bs)) THEN "true"
    ELSE SomeToolUse(Tail(bs))

\* StreamingManager.extractContent
\* extractContent taking the first block only
ExtractBlocks_First(bs) ==
    IF bs # <<>> /\ bs[1].k \in {"string", "object"} THEN bs[1].text ELSE <<>>

\* String(array), as `extractedText += block.content` converts a list of blocks:
\* the elements joined by commas, an object as "[object Object]", null as ""
RECURSIVE ArrayToString(_)
ArrayToString(bs) ==
    IF bs = <<>> THEN <<>>
    ELSE (IF Head(bs).k = "string" THEN Head(bs).text
          ELSE IF Head(bs).k = "object" THEN <<"[object Object]">>
          ELSE <<>>)
         \o (IF Len(bs) > 1 THEN <<",">> ELSE <<>>)
         \o ArrayToString(Tail(bs))

RECURSIVE ExtractBlocks(_)
ExtractBlocks(bs) ==
    IF bs = <<>> THEN <<>>
    ELSE LET b == Head(bs)
             t == IF b.k = "string" THEN b.text
                  ELSE IF b.k = "object"
                       THEN IF b.text # <<>> THEN b.text
                            ELSE IF b.content # <<>> THEN b.content
                            ELSE IF b.nested # <<>> THEN ArrayToString(b.nested)
                            ELSE <<>>
                  ELSE <<>>
         IN  t \o ExtractBlocks(Tail(bs))

extractContent(c) ==
    IF c.k = "string" THEN c.text
    ELSE IF c.k = "array" THEN ExtractBlocks(c.blocks)
    ELSE <<>>

\* The OpenAI tool call made of one tool_use block
GeneratedId == "call_generated"
ToolCall(b) ==
    [id |-> IF b.id # "" THEN b.id ELSE GeneratedId, type |-> "function",
     name |-> b.name, arguments |-> IF b.input # "" THEN b.input ELSE "{}"]

MapToolCalls(bs) == [i \in 1..Len(bs) |-> ToolCall(bs[i])]

\* StreamingManager.parseToolCalls, of {tool_calls, content}
parseToolCalls(tool_calls, content) ==
    LET fallback == AssistantMessage(Str(IF Truthy(content) THEN extractContent(content)
                                         ELSE <<>>))
    IN  IF tool_calls.k = "array"
        THEN IF Len(tool_calls.calls) > 0
             THEN Parsed("tool_calls", Absent, tool_calls.calls, "")
             ELSE fallback
        ELSE IF tool_calls.k = "object" THEN fallback
        ELSE IF content.k = "array"
        THEN IF FilterThrows(content.blocks) THEN Thrown("TypeError")
             ELSE IF Len(ToolUseBlocks(content.blocks)) > 0
             THEN Parsed("tool_calls", Absent,
                         MapToolCalls(ToolUseBlocks(content.blocks)), "")
             ELSE fallback
        ELSE fallback

\* The part of normalizeClaudeChunk after the assistant envelope
NormalizeRest(chunk) ==
    LET some == IF chunk.content.k = "array" THEN SomeToolUse(chunk.content.blocks)
                ELSE "false"
    IN  IF chunk.tool_calls.k # "absent" THEN parseToolCalls(chunk.tool_calls, chunk.content)
        ELSE IF some = "throw" THEN Thrown("TypeError")
        ELSE IF some = "true" THEN parseToolCalls(chunk.tool_calls, chunk.content)
        ELSE IF chunk.content.k = "array"
        THEN AssistantMessage(Str(extractContent(chunk.content)))
        ELSE IF chunk.type = "text" /\ Truthy(chunk.content)
        THEN AssistantMessage(chunk.content)
        ELSE Parsed("unknown", Absent, <<>>, "")

\* The test for system lines only when the chunk carries nothing else
IsSystemType_Bare(chunk) ==
    /\ chunk.type \in {"system", "result", "user"}
    /\ chunk.content.k = "absent"

\* chunk.type === 'system' || chunk.type === 'result' || chunk.type === 'user'
IsSystemType(chunk) == chunk.type \in {"system", "result", "user"}

\* StreamingManager.normalizeClaudeChunk, of a parsed JSON value
normalizeClaudeChunk(chunk) ==
    IF chunk.j = "null" THEN Thrown("TypeError")
    ELSE IF chunk.j # "object" THEN Parsed("unknown", Absent, <<>>, "")
    ELSE IF IsSystemType(chunk)
    THEN Parsed("system", Absent, <<>>, "")
    ELSE IF chunk.type = "assistant" /\ chunk.message.k = "object"
            /\ chunk.message.content.k = "array"
    THEN LET bs == chunk.message.content.blocks
         IN  IF FilterThrows(bs) THEN Thrown("TypeError")
             ELSE IF Len(ToolUseBlocks(bs)) > 0
             THEN parseToolCalls(Absent, chunk.message.content)
             ELSE IF ExtractBlocks(bs) # <<>>
             THEN AssistantMessage(Str(ExtractBlocks(bs)))
             ELSE NormalizeRest(chunk)
    ELSE NormalizeRest(chunk)

\* The try/catch of parseClaudeChunk: `return { type: 'error', error: error.message }`
CatchParse(n) ==
    IF n.type = "THROWN" THEN Parsed("error", Absent, <<>>, n.error) ELSE n

\* StreamingManager.parseClaudeChunk, of a value the generator yielded
parseClaudeChunk(chunk) ==
    IF chunk.j \in {"object", "null"}
    THEN CatchParse(normalizeClaudeChunk(chunk))
    ELSE IF chunk.j = "string"
    THEN IF Trim(chunk.text) = <<>> THEN Parsed("empty", Absent, <<>>, "")
         ELSE AssistantMessage(Str(chunk.text))
    ELSE Parsed("unknown", Absent, <<>>, "")


-----------------------------------------------------------------------------
(* StreamingResponse.  A frame is what one res.write call puts on the      *)
(* transport: an OpenAI streaming chunk (delta, finish_reason), an error   *)
(* payload, or the [DONE] marker.                                          *)

NoDelta == [keys |-> {}, content |-> <<>>, tool_calls |-> <<>>]
RoleDelta == [keys |-> {"role", "content"}, content |-> <<>>, tool_calls |-> <<>>]
ContentDelta(t) == [keys |-> {"content"}, content |-> t, tool_calls |-> <<>>]
ToolCallsDelta(cs) == [keys |-> {"tool_calls"}, content |-> <<>>, tool_calls |-> cs]

\* OpenAIModels.createStreamingChunk
createStreamingChunk(delta, finishReason) ==
    [kind |-> "chunk", delta |-> delta, finish_reason |-> finishReason, message |-> ""]
ErrorData(message) ==
    [kind |-> "error", delta |-> NoDelta, finish_reason |-> "null", message |-> message]
DoneFrame == [kind |-> "done", delta |-> NoDelta, finish_reason |-> "null", message |-> ""]

\* The session and its transport, as one value
Session ==
    [closed |-> closed, sentData |-> sentData, frames |-> frames,
     resEnded |-> resEnded, fault |-> transportFault, ret |-> lastRet,
     refused |-> refused, endCalls |-> endCalls]

\* What `new StreamingResponse(res, request, logger)` builds
NewSession ==
    [closed |-> FALSE, sentData |-> FALSE, frames |-> <<>>, resEnded |-> 0,
     fault |-> FALSE, ret |-> "none", refused |-> FALSE, endCalls |-> <<>>]

SetSession(S) ==
    /\ closed' = S.closed
    /\ sentData' = S.sentData
    /\ frames' = S.frames
    /\ resEnded' = S.resEnded
    /\ transportFault' = S.fault
    /\ lastRet' = S.ret
    /\ refused' = S.refused
    /\ endCalls' = S.endCalls

\* The test of closed left out
IsClosed_Never(S) == FALSE

\* The test `if (this.closed)` that opens write and end
IsClosed(S) == S.closed

\* write setting sentData before it looks at closed or calls res.write
Write_AlwaysMarks(S, data, throws) ==
    IF IsClosed(S) THEN [S EXCEPT !.ret = "false", !.refused = TRUE, !.sentData = TRUE]
    ELSE IF throws
    THEN [S EXCEPT !.closed = TRUE, !.fault = TRUE, !.ret = "false", !.sentData = TRUE]
    ELSE [S EXCEPT !.frames = Append(@, data), !.sentData = TRUE, !.ret = "true"]

\* StreamingResponse.write; `throws` says that res.write throws
Write(S, data, throws) ==
    IF IsClosed(S) THEN [S EXCEPT !.ret = "false", !.refused = TRUE]
    ELSE IF throws THEN [S EXCEPT !.closed = TRUE, !.fault = TRUE, !.ret = "false"]
    ELSE [S EXCEPT !.frames = Append(@, data), !.sentData = TRUE, !.ret = "true"]

\* StreamingResponse.writeChunk
WriteChunk(S, delta, finishReason, throws) ==
    Write(S, createStreamingChunk(delta, finishReason), throws)

\* StreamingResponse.writeError
WriteError(S, error, throws) == Write(S, ErrorData(error), throws)

\* StreamingResponse.end, called by `who`; outcome "ok", or which call throws:
\* "write" (res.write of the marker) or "end" (res.end)
End(S, who, outcome) ==
    LET C == [S EXCEPT !.endCalls = Append(@, who)]
    IN  IF IsClosed(S) THEN C
        ELSE IF outcome = "write" THEN [C EXCEPT !.fault = TRUE]
        ELSE IF outcome = "end"
        THEN [C EXCEPT !.frames = Append(@, DoneFrame), !.fault = TRUE]
        ELSE [C EXCEPT !.frames = Append(@, DoneFrame), !.resEnded = @ + 1,
                       !.closed = TRUE]

EndOutcomes == {"ok", "write", "end"}

-----------------------------------------------------------------------------
(* StreamingManager.processClaudeStream.                                   *)

FallbackMessage == <<"I'm unable to provide a response at the moment.">>

\* The locals of one run
Locals ==
    [roleSent |-> roleSent, contentSent |-> contentSent,
     assistantContent |-> assistantContent, chunkCount |-> chunkCount,
     streamedContent |-> streamedContent]

SetLocals(L) ==
    /\ roleSent' = L.roleSent
    /\ contentSent' = L.contentSent
    /\ assistantContent' = L.assistantContent
    /\ chunkCount' = L.chunkCount
    /\ streamedContent' = L.streamedContent

\* The role chunk sent with every chunk
RoleDue_Always(L) == TRUE

\* `if (!roleSent)` before the role chunk
RoleDue(L) == ~L.roleSent

\* The new text put in front of the accumulated text
Accumulate_Prepend(acc, filteredContent) == filteredContent \o acc

\* `=` in the place of `+=`
Accumulate_Assign(acc, filteredContent) == filteredContent

\* `assistantContent += filteredContent`
Accumulate(acc, filteredContent) == acc \o filteredContent

\* processClaudeStream called without a callback
contentCallback_None(L, content) == L

\* The callback handleStreamingRequest passes: `streamedContent += content`
contentCallback(L, content) == [L EXCEPT !.streamedContent = @ \o content]

\* The role chunk, written when it is due
SendRole(R, throws) ==
    IF RoleDue(R.L)
    THEN [R EXCEPT !.S = WriteChunk(R.S, RoleDelta, "null", throws),
                   !.L.roleSent = TRUE]
    ELSE R

\* The tool-calls branch without its assignment to contentSent
MarkContentSent_Skip(L) == L

\* `contentSent = true` after the tool-call delta
MarkContentSent(L) == [L EXCEPT !.contentSent = TRUE]

\* The loop without its check for a client that has gone
Disconnected_Never(S) == FALSE

\* `if (stream.isClosed())` at the top of the loop body
Disconnected(S) == IsClosed(S)

\* The body of the for-await loop for one chunk the generator yielded.  R holds
\* the session S and the locals L; the result adds how the body ended: "next",
\* "break" or "throw" (with the error).
LoopBody(R0, chunk, t1, t2) ==
    LET R == [R0 EXCEPT !.L.chunkCount = @ + 1]
        parsedChunk == parseClaudeChunk(chunk)
    IN  IF Disconnected(R.S) THEN [R EXCEPT !.how = "break"]
        ELSE IF parsedChunk.type = "assistant_message"
        THEN LET R1 == SendRole(R, t1)
                 c == parsedChunk.content
             IN  IF ~Truthy(c) THEN R1
                 ELSE IF c.k # "string" THEN [R1 EXCEPT !.how = "throw", !.err = "TypeError"]
                 ELSE IF Trim(c.text) = <<>> \/ filterContent(c.text) = <<>> THEN R1
                 ELSE LET f == filterContent(c.text)
                      IN  [R1 EXCEPT !.S = WriteChunk(R1.S, ContentDelta(f), "null", t2),
                                     !.L = contentCallback(
                                             [R1.L EXCEPT
                                                !.assistantContent = Accumulate(@, f),
                                                !.contentSent = TRUE], f)]
        ELSE IF parsedChunk.type = "tool_calls"
        THEN LET R1 == SendRole(R, t1)
             IN  [R1 EXCEPT !.S = WriteChunk(R1.S, ToolCallsDelta(parsedChunk.tool_calls),
                                             "null", t2),
                            !.L = MarkContentSent(R1.L)]
        ELSE IF parsedChunk.type = "error"
        THEN [R EXCEPT !.how = "throw", !.err = "ErrorChunk"]
        ELSE R

\* The test for no chunks left out
NoChunks_Never(L) == FALSE

\* `if (chunkCount === 0)` after the loop
NoChunks(L) == L.chunkCount = 0

\* The fallback whenever no content was sent, role or not
FallbackDue_NoRole(L) == ~L.contentSent

\* The fallback left out
FallbackDue_Never(L) == FALSE

\* `if (roleSent && !contentSent)` after the loop
FallbackDue(L) == L.roleSent /\ ~L.contentSent

\* The final chunk left out
FinalDue_Never(L) == FALSE

\* `if (roleSent)` before the final chunk
FinalDue(L) == L.roleSent

\* The code after the loop, up to `return assistantContent`: "return" or "throw"
AfterLoop(R, t1, t2) ==
    IF NoChunks(R.L) THEN [R EXCEPT !.how = "throw", !.err = "NoResponse"]
    ELSE LET R1 == IF FallbackDue(R.L)
                   THEN [R EXCEPT !.S = WriteChunk(R.S, ContentDelta(FallbackMessage),
                                                   "null", t1),
                                  !.L = contentCallback(
                                          [R.L EXCEPT !.assistantContent = FallbackMessage],
                                          FallbackMessage)]
                   ELSE IF ~R.L.roleSent
                   THEN [R EXCEPT !.S = WriteChunk(R.S, RoleDelta, "null", t1),
                                  !.L.roleSent = TRUE]
                   ELSE R
             R2 == IF FinalDue(R1.L)
                   THEN [R1 EXCEPT !.S = WriteChunk(R1.S, NoDelta, "stop", t2)]
                   ELSE R1
         IN  [R2 EXCEPT !.how = "return"]

\* The catch block of processClaudeStream (it rethrows)
CatchBlock(S, error, throws) == IF ~IsClosed(S) THEN WriteError(S, error, throws) ELSE S

\* The catch block of handleStreamingRequest
HandlerCatchBlock(S, error, throws) ==
    IF ~IsClosed(S) THEN WriteError(S, error, throws) ELSE S

\* The finally block without its call of end
HandlerFinallyBlock_Skip(S, outcome) == S

\* The finally block of handleStreamingRequest
HandlerFinallyBlock(S, outcome) == IF ~IsClosed(S) THEN End(S, "handler", outcome) ELSE S


-----------------------------------------------------------------------------
(* ClaudeProcess: the temporary system-prompt file and the child.          *)

\* The ClaudeProcess of the request and its options, as one value
Child == [promptFile |-> promptFile, isRunning |-> isRunning, signals |-> signals]

SetChild(Ch) ==
    /\ promptFile' = Ch.promptFile
    /\ isRunning' = Ch.isRunning
    /\ signals' = Ch.signals

\* buildClaudeArgs creates the file when the options carry a system prompt; spawn
\* sets isRunning
Spawned(req) ==
    [promptFile |-> IF req.systemPrompt THEN "exists" ELSE "none",
     isRunning |-> TRUE, signals |-> <<>>]

\* ClaudeProcess.cleanupSystemPromptFile; `unlinkOk` says that fs.unlinkSync works.
\* A failure is logged and not raised.
cleanupSystemPromptFile(file, unlinkOk) ==
    IF file \in {"exists", "stuck"}
    THEN IF unlinkOk THEN "removed" ELSE "stuck"
    ELSE file

\* `if (options.systemPromptFile)` before the cleanup
Cleanup(Ch, unlinkOk) ==
    IF Ch.promptFile # "none"
    THEN [Ch EXCEPT !.promptFile = cleanupSystemPromptFile(@, unlinkOk)]
    ELSE Ch

\* ClaudeProcess.kill.  No code of the pipeline calls it.
Kill(Ch) ==
    IF Ch.isRunning
    THEN [Ch EXCEPT !.signals = Append(@, "SIGTERM"), !.isRunning = FALSE]
    ELSE Ch

\* A finally block that kills the child
ExecuteStreamingFinally_Kill(Ch, unlinkOk) ==
    Cleanup([Kill(Ch) EXCEPT !.isRunning = FALSE], unlinkOk)

\* The finally block of executeStreaming: it runs when the generator ends, throws,
\* or is closed by its consumer (return() after a break or a throw in the loop)
ExecuteStreamingFinally(Ch, unlinkOk) ==
    Cleanup([Ch EXCEPT !.isRunning = FALSE], unlinkOk)

\* What the 'close' and 'error' listeners of execute do before they settle
ExecuteSettle(Ch, unlinkOk) == Cleanup([Ch EXCEPT !.isRunning = FALSE], unlinkOk)

\* Every exit code taken for a clean exit
ExitFailed_Never(code) == FALSE

\* Only a negative code taken for a failure
ExitFailed_Negative(code) == code < 0

\* `if (code === 0)` in the 'close' listeners of execute and of waitForExit
ExitFailed(code) == code # 0

\* The stdout text in the message of the error executeStreaming throws: the
\* message is made of the message of the cause and of stderr
StreamingErrorOutput == <<>>

ChildVars == <<promptFile, isRunning, signals>>

-----------------------------------------------------------------------------
(* ChatHandler.handle: the request and its plain HTTP response.            *)

NoRequest == [stream |-> FALSE, tools |-> 0, functions |-> 0, systemPrompt |-> FALSE]

\* The requests: streaming or not, the lengths of tools and of functions, with a
\* system message or without
Requests ==
    [stream : BOOLEAN, tools : 0..1, functions : 0..1, systemPrompt : BOOLEAN]

\* The test left out
ToolsGiven_Never(req) == FALSE

\* `(request.tools && request.tools.length > 0) || (request.functions && ...)`
ToolsGiven(req) == req.tools > 0 \/ req.functions > 0

\* ChatHandler.sendError, through sendJSON: one response with a status and a type
sendError(statusCode, type) == [status |-> statusCode, type |-> type]

\* ChatHandler.sendJSON(res, 200, response) of a completion
CompletionResponse == [status |-> 200, type |-> "chat.completion"]

RequestVars == <<request, response, headersSent, buffer, errOutput>>

-----------------------------------------------------------------------------
(* The subprocess and what it writes to stdout.                            *)

\* The number of 'data' events of one run
MaxFragments == 2

Blank == [j |-> "blank"]
SystemLine == JObj("system", Absent, Absent, Absent)
ResultLine == JObj("result", Absent, Arr(<<TextBlock(<<"r">>)>>), Absent)
WhitespaceStringLine == JStr(<<"sp">>)
RawLine == Raw(<<"a">>)
MarkerLine == Raw(<<"[File: ", "b", "]">>)
MixedLine == Raw(<<"[File: ", "b", "]", "sp", "c">>)
AssistantLine ==
    JObj("assistant", Message(Arr(<<TextBlock(<<"H">>), TextBlock(<<"i">>)>>)),
         Absent, Absent)
PaddedAssistantLine ==
    JObj("assistant", Message(Arr(<<TextBlock(<<"sp">>), TextBlock(<<"H">>)>>)),
         Absent, Absent)
DirectToolCallsLine ==
    JObj("", Absent, Absent, Calls(<<ToolCall(ToolUseBlock("t2", "g", "{}"))>>))
ToolUseLine ==
    JObj("assistant",
         Message(Arr(<<TextBlock(<<"x">>), ToolUseBlock("t1", "get_weather", "{city}")>>)),
         Absent, Absent)
NullLine == JNull
ErrorTypeLine == JObj("error", Absent, Absent, Absent)
NumberContentLine == JObj("text", Absent, Num, Absent)

\* The fragments a 'data' event may carry: the lines that chunk.split('\n') gives
Fragments ==
    { <<Blank>>, <<SystemLine>>, <<WhitespaceStringLine>>, <<RawLine>>, <<MarkerLine>>,
      <<MixedLine>>, <<AssistantLine>>, <<PaddedAssistantLine>>, <<ToolUseLine>>,
      <<DirectToolCallsLine>>, <<NullLine>>,
      <<ErrorTypeLine>>, <<NumberContentLine>>,
      <<ResultLine, Blank, RawLine>> }

ExitCodes == {0, 1}

\* `if (line.trim())` in executeStreaming
IsBlank(line) == line.j = "blank"
NonBlank(line) == ~IsBlank(line)

-----------------------------------------------------------------------------
(* The request: handleStreamingRequest, and under it processClaudeStream,  *)
(* streamingCompletion, executeStreaming and streamToAsyncIterator.  pc is *)
(* where this chain of async calls stands.                                 *)

\* The requests that are served at the same time
Requesters == {1, 2}

\* The locals of processClaudeStream as its call starts
NewLocals ==
    [roleSent |-> FALSE, contentSent |-> FALSE, assistantContent |-> <<>>,
     chunkCount |-> 0, streamedContent |-> <<>>]

\* What one request owns: its session, the locals of its processClaudeStream call,
\* the lines its own subprocess has written and not yet yielded (queue), and as
\* history the lines its loop body has handled
NoPeer ==
    [phase |-> "idle", S |-> NewSession, L |-> NewLocals, queue |-> <<>>,
     handled |-> <<>>, emittedCount |-> 0]

\* What no request has touched yet: no session, the locals of processClaudeStream
\* at their initial values, nothing sent, no file
Fresh ==
    /\ closed = FALSE
    /\ sentData = FALSE
    /\ frames = <<>>
    /\ resEnded = 0
    /\ transportFault = FALSE
    /\ lastRet = "none"
    /\ refused = FALSE
    /\ endCalls = <<>>
    /\ roleSent = FALSE
    /\ contentSent = FALSE
    /\ assistantContent = <<>>
    /\ chunkCount = 0
    /\ err = "none"
    /\ returned = <<>>
    /\ streamedContent = <<>>
    /\ exitCode = -1
    /\ response = <<>>
    /\ buffer = <<>>
    /\ errOutput = <<>>
    /\ promptFile = "none"
    /\ signals = <<>>
    /\ filtered = <<>>
    /\ peers = [r \in Requesters |-> NoPeer]

RECURSIVE Flatten(_)
Flatten(fs) == IF fs = <<>> THEN <<>> ELSE Head(fs) \o Flatten(Tail(fs))

\* No stdout text is followed through executeStreaming
NoRun == [written |-> <<>>, fragments |-> <<>>, chunks |-> <<>>]

\* No request has arrived
Idle ==
    /\ pc = "idle"
    /\ proc = "none"
    /\ lines = <<>>
    /\ esChunkCount = 0
    /\ esBuffer = 0
    /\ emitted = <<>>
    /\ yielded = <<>>
    /\ request = NoRequest
    /\ headersSent = FALSE
    /\ isRunning = FALSE

Init ==
    /\ Fresh
    /\ Idle
    /\ filterInput = <<>>
    /\ stdoutRun = NoRun

FilterVars == <<filterInput, filtered>>

SessionVars ==
    <<closed, sentData, frames, resEnded, transportFault, lastRet, refused, endCalls>>
LocalVars == <<roleSent, contentSent, assistantContent, chunkCount, streamedContent>>
ProcessVars == <<lines, esChunkCount, esBuffer>>

\* handleStreamingRequest up to its first suspension.  A request with tools or
\* functions is answered with 400 and nothing else is done.  Otherwise the session
\* is created (its constructor sends the headers), the generators start, the
\* subprocess is spawned and streamToAsyncIterator's first next() registers its
\* listeners on stdout.
HandleStreamingRequest(req) ==
    /\ pc = "idle"
    /\ req.stream
    /\ request' = req
    /\ IF ToolsGiven(req)
       THEN /\ response' = Append(response, sendError(400, "invalid_request_error"))
            /\ pc' = "rejected"
            /\ UNCHANGED <<SessionVars, proc, headersSent, ChildVars>>
       ELSE /\ SetSession(NewSession)
            /\ headersSent' = TRUE
            /\ SetChild(Spawned(req))
            /\ proc' = "running"
            /\ pc' = "awaitData"
            /\ UNCHANGED response
    /\ UNCHANGED <<LocalVars, ProcessVars, err, returned, emitted, yielded, exitCode,
                   buffer, errOutput>>
    /\ UNCHANGED <<FilterVars, peers, stdoutRun>>

\* handle with a body validateChatCompletionRequest refuses: the ValidationError is
\* caught by handle and answered with its status 422 and its code; no handler runs
HandleInvalidRequest ==
    /\ pc = "idle"
    /\ response' = Append(response, sendError(422, "validation_error"))
    /\ pc' = "rejected"
    /\ UNCHANGED <<SessionVars, LocalVars, ProcessVars, ChildVars, proc, err, returned,
                   emitted, yielded, exitCode, request, headersSent, buffer, errOutput>>
    /\ UNCHANGED <<FilterVars, peers, stdoutRun>>

\* The promise of execute is settled already: resolve and reject do nothing more
AlreadySettled_Never == FALSE

AlreadySettled == pc # "awaitExecute"

\* handleNonStreamingRequest up to its suspension: 400 for tools or functions,
\* otherwise execute spawns the subprocess and registers its listeners
HandleNonStreamingRequest(req) ==
    /\ pc = "idle"
    /\ ~req.stream
    /\ request' = req
    /\ IF ToolsGiven(req)
       THEN /\ response' = Append(response, sendError(400, "invalid_request_error"))
            /\ pc' = "rejected"
            /\ UNCHANGED <<proc, ChildVars>>
       ELSE /\ SetChild(Spawned(req))
            /\ proc' = "running"
            /\ pc' = "awaitExecute"
            /\ UNCHANGED response
    /\ UNCHANGED <<SessionVars, LocalVars, ProcessVars, err, returned, emitted, yielded,
                   exitCode, headersSent, buffer, errOutput>>
    /\ UNCHANGED <<FilterVars, peers, stdoutRun>>

\* execute's listener on stdout 'data': `this.buffer += chunk`
ExecuteData(fragment) ==
    /\ pc = "awaitExecute"
    /\ proc = "running"
    /\ Len(emitted) < MaxFragments
    /\ emitted' = Append(emitted, fragment)
    /\ buffer' = Append(buffer, fragment)
    /\ UNCHANGED <<SessionVars, LocalVars, ProcessVars, ChildVars, pc, proc, err, returned,
                   yielded, exitCode, request, response, headersSent, errOutput>>
    /\ UNCHANGED <<FilterVars, peers, stdoutRun>>

\* The child emits 'close' in execute: the promise resolves with the buffer on code
\* 0 and handleNonStreamingRequest sends the completion; otherwise it rejects with
\* an error whose message holds the code and the buffer, and the catch of handle
\* answers 500.  After a spawn failure the promise is settled already.
ExecuteClose(code) ==
    /\ pc \in {"awaitExecute", "answered"}
    /\ proc \in {"running", "spawnFailed"}
    /\ proc' = "closed"
    /\ \E unlinkOk \in BOOLEAN : SetChild(ExecuteSettle(Child, unlinkOk))
    /\ IF ~AlreadySettled
       THEN /\ exitCode' = code
            /\ pc' = "answered"
            /\ IF ~ExitFailed(code)
               THEN /\ response' = Append(response, CompletionResponse)
                    /\ UNCHANGED <<err, errOutput>>
               ELSE /\ err' = "ExitCode"
                    /\ errOutput' = buffer
                    /\ response' = Append(response, sendError(500, "internal_error"))
       ELSE UNCHANGED <<exitCode, pc, err, errOutput, response>>
    /\ UNCHANGED <<SessionVars, LocalVars, ProcessVars, returned, emitted, yielded,
                   request, headersSent, buffer>>
    /\ UNCHANGED <<FilterVars, peers, stdoutRun>>

\* The child emits 'error' in execute (the spawn failed): the promise rejects and
\* the catch of handle answers 500
ExecuteError ==
    /\ pc = "awaitExecute"
    /\ proc = "running"
    /\ emitted = <<>>
    /\ proc' = "spawnFailed"
    /\ \E unlinkOk \in BOOLEAN : SetChild(ExecuteSettle(Child, unlinkOk))
    /\ err' = "SpawnFailed"
    /\ response' = Append(response, sendError(500, "internal_error"))
    /\ pc' = "answered"
    /\ UNCHANGED <<SessionVars, LocalVars, ProcessVars, returned, emitted, yielded,
                   exitCode, request, headersSent, buffer, errOutput>>
    /\ UNCHANGED <<FilterVars, peers, stdoutRun>>

\* The child emits 'error' in executeStreaming (the spawn failed): the listener of
\* executeStreaming throws inside the emitter.  No caller catches it and the server
\* has no handler for uncaught exceptions.
SpawnError ==
    /\ pc = "awaitData"
    /\ proc = "running"
    /\ emitted = <<>>
    /\ proc' = "spawnFailed"
    /\ pc' = "crashed"
    /\ UNCHANGED <<SessionVars, LocalVars, ProcessVars, ChildVars, RequestVars, err,
                   returned, emitted, yielded, exitCode>>
    /\ UNCHANGED <<FilterVars, peers, stdoutRun>>

\* streamToAsyncIterator: the listeners of one next() are registered from the
\* call of next() until the first event they see (cleanup removes them)
Listening == pc = "awaitData"

\* stdout emits 'data'.  onData resolves next() with the fragment, and the loop of
\* executeStreaming counts it, appends it to buffer and splits it into lines.  With
\* no listener registered the event has no receiver.
StdoutData(fragment) ==
    /\ request.stream
    /\ proc = "running"
    /\ Len(emitted) < MaxFragments
    /\ emitted' = Append(emitted, fragment)
    /\ IF Listening
       THEN /\ yielded' = Append(yielded, fragment)
            /\ esChunkCount' = esChunkCount + 1
            /\ esBuffer' = esBuffer + Len(fragment)
            /\ lines' = SelectSeq(fragment, NonBlank)
            /\ pc' = "lines"
       ELSE UNCHANGED <<yielded, ProcessVars, pc>>
    /\ UNCHANGED <<SessionVars, LocalVars, proc, err, returned, exitCode>>
    /\ UNCHANGED <<ChildVars, RequestVars>>
    /\ UNCHANGED <<FilterVars, peers, stdoutRun>>
\* stdout emits 'end': onEnd resolves next() with done, the loop of
\* executeStreaming is over
StdoutEnd ==
    /\ request.stream
    /\ proc = "running"
    /\ proc' = "ended"
    /\ pc' = IF Listening THEN "stdoutEnded" ELSE pc
    /\ UNCHANGED <<SessionVars, LocalVars, ProcessVars, err, returned, emitted, yielded,
                   exitCode>>
    /\ UNCHANGED <<ChildVars, RequestVars>>
    /\ UNCHANGED <<FilterVars, peers, stdoutRun>>
\* stdout emits 'error': onError rejects next(); executeStreaming's catch wraps the
\* error and throws it to processClaudeStream.  An 'error' event without a listener
\* is thrown by the emitter and ends the server.
StdoutError ==
    /\ request.stream
    /\ proc = "running"
    /\ proc' = "errored"
    /\ IF Listening
       THEN /\ pc' = "pcsCatch"
            /\ err' = "StdoutError"
            /\ \E unlinkOk \in BOOLEAN : SetChild(ExecuteStreamingFinally(Child, unlinkOk))
       ELSE /\ pc' = "crashed"
            /\ err' = err
            /\ UNCHANGED ChildVars
    /\ UNCHANGED RequestVars
    /\ UNCHANGED <<SessionVars, LocalVars, ProcessVars, returned, emitted, yielded,
                   exitCode>>
    /\ UNCHANGED <<FilterVars, peers, stdoutRun>>

\* executeStreaming yields the next line, parsed, and processClaudeStream runs the
\* body of its loop on it
ProcessChunk ==
    /\ pc = "lines"
    /\ lines # <<>>
    /\ \E t1, t2 \in BOOLEAN :
         LET R == LoopBody([S |-> Session, L |-> Locals, how |-> "next", err |-> "none"],
                           parseClaudeOutput(Head(lines)), t1, t2)
         IN  /\ SetSession(R.S)
             /\ SetLocals(R.L)
             /\ err' = R.err
             /\ pc' = CASE R.how = "next" -> "lines"
                        [] R.how = "break" -> "afterLoop"
                        [] R.how = "throw" -> "pcsCatch"
             /\ lines' = IF R.how = "next" THEN Tail(lines) ELSE <<>>
             /\ IF R.how = "next" THEN UNCHANGED ChildVars
                ELSE \E unlinkOk \in BOOLEAN :
                        SetChild(ExecuteStreamingFinally(Child, unlinkOk))
    /\ UNCHANGED RequestVars
    /\ UNCHANGED <<proc, esChunkCount, esBuffer, returned, emitted, yielded, exitCode>>
    /\ UNCHANGED <<FilterVars, peers, stdoutRun>>

\* The lines of the fragment are done: executeStreaming asks for the next fragment
\* and streamToAsyncIterator's next() registers its listeners
IteratorNext ==
    /\ pc = "lines"
    /\ lines = <<>>
    /\ pc' = "awaitData"
    /\ UNCHANGED <<SessionVars, LocalVars, ProcessVars, proc, err, returned, emitted,
                   yielded, exitCode>>
    /\ UNCHANGED <<ChildVars, RequestVars>>
    /\ UNCHANGED <<FilterVars, peers, stdoutRun>>
\* waitForExit registers its 'close' listener on the process
WaitForExit ==
    /\ pc = "stdoutEnded"
    /\ pc' = "awaitExit"
    /\ UNCHANGED <<SessionVars, LocalVars, ProcessVars, proc, err, returned, emitted,
                   yielded, exitCode>>
    /\ UNCHANGED <<ChildVars, RequestVars>>
    /\ UNCHANGED <<FilterVars, peers, stdoutRun>>
\* `if (chunkCount === 0 && buffer.length === 0)` in executeStreaming
NoOutput == esChunkCount = 0 /\ esBuffer = 0

\* The process emits 'close' once its stdout is closed.  waitForExit resolves on
\* code 0 and rejects otherwise; executeStreaming then throws on no output, or
\* returns, which ends the loop of processClaudeStream.
ProcessClose(code) ==
    /\ request.stream
    /\ proc \in {"ended", "errored"}
    /\ proc' = "closed"
    /\ IF pc = "awaitExit"
       THEN /\ exitCode' = code
            /\ IF ExitFailed(code)
               THEN pc' = "pcsCatch" /\ err' = "ExitCode"
                    /\ errOutput' = StreamingErrorOutput
               ELSE IF NoOutput
               THEN pc' = "pcsCatch" /\ err' = "NoOutput"
                    /\ errOutput' = StreamingErrorOutput
               ELSE pc' = "afterLoop" /\ err' = err /\ errOutput' = errOutput
            /\ \E unlinkOk \in BOOLEAN : SetChild(ExecuteStreamingFinally(Child, unlinkOk))
       ELSE UNCHANGED <<pc, err, exitCode, ChildVars, errOutput>>
    /\ UNCHANGED <<request, response, headersSent, buffer>>
    /\ UNCHANGED <<SessionVars, LocalVars, ProcessVars, returned, emitted, yielded>>
    /\ UNCHANGED <<FilterVars, peers, stdoutRun>>

\* processClaudeStream after its loop
Finalize ==
    /\ pc = "afterLoop"
    /\ \E t1, t2 \in BOOLEAN :
         LET R == AfterLoop([S |-> Session, L |-> Locals, how |-> "next", err |-> "none"],
                            t1, t2)
         IN  /\ SetSession(R.S)
             /\ SetLocals(R.L)
             /\ err' = R.err
             /\ pc' = IF R.how = "throw" THEN "pcsCatch" ELSE "finally"
             /\ returned' = IF R.how = "throw" THEN returned
                            ELSE <<R.L.assistantContent>>
    /\ UNCHANGED <<ProcessVars, proc, emitted, yielded, exitCode>>
    /\ UNCHANGED <<ChildVars, RequestVars>>
    /\ UNCHANGED <<FilterVars, peers, stdoutRun>>
\* processClaudeStream's catch block
StreamCatch ==
    /\ pc = "pcsCatch"
    /\ \E t \in BOOLEAN : SetSession(CatchBlock(Session, err, t))
    /\ pc' = "handlerCatch"
    /\ UNCHANGED <<LocalVars, ProcessVars, proc, err, returned, emitted, yielded, exitCode>>
    /\ UNCHANGED <<ChildVars, RequestVars>>
    /\ UNCHANGED <<FilterVars, peers, stdoutRun>>
\* handleStreamingRequest's catch block
HandlerCatch ==
    /\ pc = "handlerCatch"
    /\ \E t \in BOOLEAN : SetSession(HandlerCatchBlock(Session, err, t))
    /\ pc' = "finally"
    /\ UNCHANGED <<LocalVars, ProcessVars, proc, err, returned, emitted, yielded, exitCode>>
    /\ UNCHANGED <<ChildVars, RequestVars>>
    /\ UNCHANGED <<FilterVars, peers, stdoutRun>>
\* handleStreamingRequest's finally block
HandlerFinally ==
    /\ pc = "finally"
    /\ \E o \in EndOutcomes : SetSession(HandlerFinallyBlock(Session, o))
    /\ pc' = "done"
    /\ UNCHANGED <<LocalVars, ProcessVars, proc, err, returned, emitted, yielded, exitCode>>
    /\ UNCHANGED <<ChildVars, RequestVars>>
    /\ UNCHANGED <<FilterVars, peers, stdoutRun>>
\* res emits 'close': the client went away
ResClose ==
    /\ headersSent
    /\ ~closed
    /\ closed' = TRUE
    /\ transportFault' = TRUE
    /\ UNCHANGED <<sentData, frames, resEnded, lastRet, refused, endCalls, LocalVars,
                   ProcessVars,
                   pc, proc, err, returned, emitted, yielded, exitCode>>
    /\ UNCHANGED <<ChildVars, RequestVars>>
    /\ UNCHANGED <<FilterVars, peers, stdoutRun>>
\* res emits 'error'
ResError ==
    /\ headersSent
    /\ ~closed
    /\ closed' = TRUE
    /\ transportFault' = TRUE
    /\ UNCHANGED <<sentData, frames, resEnded, lastRet, refused, endCalls, LocalVars,
                   ProcessVars,
                   pc, proc, err, returned, emitted, yielded, exitCode>>
    /\ UNCHANGED <<ChildVars, RequestVars>>
    /\ UNCHANGED <<FilterVars, peers, stdoutRun>>
\* The chain is suspended: it waits for an event of stdout or of the process, or
\* it is over.  Between two suspensions it runs as promise continuations, which the
\* event loop completes before it delivers the next I/O event.
Suspended == pc \in {"awaitData", "awaitExit", "done", "awaitExecute", "answered"}

Next ==
    \/ \E req \in Requests : HandleStreamingRequest(req)
    \/ \E req \in Requests : HandleNonStreamingRequest(req)
    \/ HandleInvalidRequest
    \/ \E f \in Fragments : ExecuteData(f)
    \/ \E c \in ExitCodes : ExecuteClose(c)
    \/ ExecuteError
    \/ SpawnError
    \/ Suspended /\ \E f \in Fragments : StdoutData(f)
    \/ Suspended /\ StdoutEnd
    \/ Suspended /\ StdoutError
    \/ Suspended /\ \E c \in ExitCodes : ProcessClose(c)
    \/ Suspended /\ ResClose
    \/ Suspended /\ ResError
    \/ ProcessChunk
    \/ IteratorNext
    \/ WaitForExit
    \/ Finalize
    \/ StreamCatch
    \/ HandlerCatch
    \/ HandlerFinally

Spec == Init /\ [][Next]_vars

\* The same request with the events of stdout, of the process and of res arriving
\* at any point of the chain: every interleaving of the events with the chain's
\* steps, whatever the emitter's timing
RaceNext ==
    \/ \E req \in Requests : HandleStreamingRequest(req)
    \/ \E req \in Requests : HandleNonStreamingRequest(req)
    \/ HandleInvalidRequest
    \/ \E f \in Fragments : ExecuteData(f)
    \/ \E c \in ExitCodes : ExecuteClose(c)
    \/ ExecuteError
    \/ SpawnError
    \/ \E f \in Fragments : StdoutData(f)
    \/ StdoutEnd
    \/ StdoutError
    \/ \E c \in ExitCodes : ProcessClose(c)
    \/ ResClose
    \/ ResError
    \/ ProcessChunk
    \/ IteratorNext
    \/ WaitForExit
    \/ Finalize
    \/ StreamCatch
    \/ HandlerCatch
    \/ HandlerFinally

RaceSpec == Init /\ [][RaceNext]_vars

-----------------------------------------------------------------------------
(* One chunk of any shape through parseClaudeChunk and the loop body.      *)

Contents ==
    { Absent, Str(<<>>), Str(<<"a">>), Num, Arr(<<>>), Arr(<<TextBlock(<<"a">>)>>),
      Arr(<<StrBlock(<<"b">>), TextBlock(<<>>)>>), Arr(<<NullBlock>>),
      Arr(<<TextBlock(<<"a">>), ToolUseBlock("", "f", "")>>),
      Arr(<<ToolUseBlock("t1", "f", "{}"), NullBlock>>),
      Arr(<<ToolUseBlock("t1", "f", "{}"), TextBlock(<<"a">>), ToolUseBlock("", "g", "")>>),
      Arr(<<Block("text", <<>>, <<"c">>, "", "", ""),
            NestedBlock("tool_result", <<TextBlock(<<"a">>), StrBlock(<<"b">>)>>)>>) }

Messages == {Absent} \cup {Message(c) : c \in Contents}

ToolCallsFields ==
    { Absent, NotAnArray, Calls(<<>>), Calls(<<ToolCall(ToolUseBlock("t2", "g", "{}"))>>) }

TypeMarkers == {"system", "user", "assistant", "text", "error", ""}

\* The lines of stdout, by shape: not JSON, or JSON null, a number, a string, an
\* object with any of the fields normalizeClaudeChunk reads
ChunkLines ==
    {JNull, JNum, Raw(<<"a">>), JStr(<<"sp">>), JStr(<<"a">>)}
        \cup {JObj(ty, m, c, tc) :
                ty \in TypeMarkers, m \in Messages, c \in Contents, tc \in ToolCallsFields}

\* processClaudeStream is about to run its loop body on its first chunk
ChunkInit ==
    /\ Fresh
    /\ pc = "lines"
    /\ proc = "running"
    /\ lines \in {<<l>> : l \in ChunkLines}
    /\ esChunkCount = 1
    /\ esBuffer = 1
    /\ emitted = <<lines>>
    /\ yielded = emitted
    /\ request = [stream |-> TRUE, tools |-> 0, functions |-> 0, systemPrompt |-> FALSE]
    /\ headersSent = TRUE
    /\ isRunning = TRUE
    /\ filterInput = <<>>
    /\ stdoutRun = NoRun

ChunkSpec == ChunkInit /\ [][ProcessChunk]_vars

-----------------------------------------------------------------------------
(* filterContent on its own: every string of at most MaxLen tokens, and    *)
(* filterContent called on it and then on its own result.                  *)

MaxLen == 5

Alphabet == {"a", "nl", "<thinking>", "</antml:thinking>", "<thin", "king>", "[File: ", "]"}

\* The strings, each as its token sequence
Texts == {s \in UNION {[1..n -> Alphabet] : n \in 0..MaxLen} : Lex(s) = s}

FilterInit ==
    /\ Fresh
    /\ Idle
    /\ filterInput \in Texts
    /\ stdoutRun = NoRun

\* this.filterContent(x), with x the string and then the previous result
ApplyFilter ==
    /\ Len(filtered) < 2
    /\ filtered' = Append(filtered, filterContent(IF filtered = <<>> THEN filterInput
                                                   ELSE filtered[Len(filtered)]))
    /\ UNCHANGED <<SessionVars, LocalVars, ProcessVars, ChildVars, RequestVars, pc, proc,
                   err, returned, emitted, yielded, exitCode, filterInput, peers, stdoutRun>>

FilterSpec == FilterInit /\ [][ApplyFilter]_vars


-----------------------------------------------------------------------------
(* Concurrent streaming requests.  The route handler builds a ChatHandler, *)
(* and with it a StreamingManager and a ClaudeCLI, for every request;      *)
(* streamingCompletion builds a ClaudeProcess for every call; createStream *)
(* builds a StreamingResponse on the request's own res; roleSent,          *)
(* contentSent, assistantContent and chunkCount are locals of the call.    *)

MaxPeerLines == 2

\* What the subprocess of request r may print: its own text, or a system line
PeerText(r) == IF r = 1 THEN <<"a">> ELSE <<"b">>
PeerLines(r) == {Raw(PeerText(r)), SystemLine}

\* The locals read from the first request, whoever runs
PeerLocals_Shared(r) == peers[1].L

\* The locals the loop body of request r reads and writes
PeerLocals(r) == peers[r].L

\* POST /v1/chat/completions for r: handleStreamingRequest creates the session
\* and starts processClaudeStream on the generator of a new ClaudeProcess
PeerStart(r) ==
    /\ peers[r].phase = "idle"
    /\ peers' = [peers EXCEPT ![r].phase = "streaming"]
    /\ UNCHANGED <<SessionVars, LocalVars, ProcessVars, ChildVars, RequestVars, pc, proc,
                   err, returned, emitted, yielded, exitCode, FilterVars, stdoutRun>>

\* The subprocess of r writes a line to its stdout
PeerData(r) ==
    /\ peers[r].phase = "streaming"
    /\ peers[r].emittedCount < MaxPeerLines
    /\ \E line \in PeerLines(r) :
         peers' = [peers EXCEPT ![r].queue = Append(@, line),
                                ![r].emittedCount = @ + 1]
    /\ UNCHANGED <<SessionVars, LocalVars, ProcessVars, ChildVars, RequestVars, pc, proc,
                   err, returned, emitted, yielded, exitCode, FilterVars, stdoutRun>>

\* The loop body of r's processClaudeStream call runs on the next chunk of r's
\* generator
PeerChunk(r) ==
    /\ peers[r].phase = "streaming"
    /\ peers[r].queue # <<>>
    /\ \E t1, t2 \in BOOLEAN :
         LET line == Head(peers[r].queue)
             R == LoopBody([S |-> peers[r].S, L |-> PeerLocals(r), how |-> "next",
                            err |-> "none"],
                           parseClaudeOutput(line), t1, t2)
         IN  peers' = [peers EXCEPT
                         ![r].S = R.S,
                         ![r].L = R.L,
                         ![r].queue = Tail(@),
                         ![r].handled = IF R.how = "next" THEN Append(@, line) ELSE @,
                         ![r].phase = IF R.how = "next" THEN "streaming" ELSE "left"]
    /\ UNCHANGED <<SessionVars, LocalVars, ProcessVars, ChildVars, RequestVars, pc, proc,
                   err, returned, emitted, yielded, exitCode, FilterVars, stdoutRun>>

\* The client of r goes away: r's res emits 'close'
PeerClose(r) ==
    /\ peers[r].phase = "streaming"
    /\ ~peers[r].S.closed
    /\ peers' = [peers EXCEPT ![r].S.closed = TRUE, ![r].S.fault = TRUE]
    /\ UNCHANGED <<SessionVars, LocalVars, ProcessVars, ChildVars, RequestVars, pc, proc,
                   err, returned, emitted, yielded, exitCode, FilterVars, stdoutRun>>

PairNext ==
    \E r \in Requesters :
        \/ PeerStart(r)
        \/ PeerData(r)
        \/ PeerChunk(r)
        \/ PeerClose(r)

PairSpec == Init /\ [][PairNext]_vars


\* Once the chunk stream has terminated, what is left of the request is promise
\* continuations of its own call chain, which the event loop always runs
FairSpec ==
    /\ Spec
    /\ WF_vars(Finalize)
    /\ WF_vars(StreamCatch)
    /\ WF_vars(HandlerCatch)
    /\ WF_vars(HandlerFinally)

-----------------------------------------------------------------------------
(* The loop of executeStreaming over the text of stdout: every text of at  *)
(* most MaxBytes characters, delivered in 'data' events of any sizes.      *)

MaxBytes == 3

StdoutAlphabet == {"{", "}", "a", "nl"}
StdoutTexts == UNION {[1..n -> StdoutAlphabet] : n \in 1..MaxBytes}

\* chunk.split('\n')
RECURSIVE SplitLines(_)
SplitLines(chunk) ==
    IF \A i \in 1..Len(chunk) : chunk[i] # "nl" THEN <<chunk>>
    ELSE LET i == CHOOSE k \in 1..Len(chunk) :
                      chunk[k] = "nl" /\ \A j \in 1..(k - 1) : chunk[j] # "nl"
         IN  <<SubSeq(chunk, 1, i - 1)>> \o SplitLines(SubSeq(chunk, i + 1, Len(chunk)))

\* JSON.parse(line) in parseClaudeOutput: of the texts over StdoutAlphabet only
\* `{}` is JSON; on every other text JSON.parse throws
JsonParse(line) ==
    IF line = <<"{", "}">> THEN JObj("", Absent, Absent, Absent) ELSE Raw(line)

\* `if (line.trim())`
LineKept(line) == Trim(line) # <<>>

\* The body of the loop of executeStreaming on one fragment: the chunks it yields,
\* one for each line of the fragment that is not blank, trimmed
ChunksOf(chunk) ==
    LET kept == SelectSeq(SplitLines(chunk), LineKept)
    IN  [i \in 1..Len(kept) |-> parseClaudeOutput(JsonParse(Trim(kept[i])))]

\* What of the text stdout has not emitted yet
Pending ==
    SubSeq(stdoutRun.written, Len(Flatten(stdoutRun.fragments)) + 1,
           Len(stdoutRun.written))

SplitInit ==
    /\ Fresh
    /\ Idle
    /\ filterInput = <<>>
    /\ stdoutRun \in {[written |-> t, fragments |-> <<>>, chunks |-> <<>>] :
                        t \in StdoutTexts}

\* stdout emits 'data' with the next n characters of the text; executeStreaming
\* splits the fragment into lines and yields the parsed lines
DataEvent(n) ==
    /\ n <= Len(Pending)
    /\ LET chunk == SubSeq(Pending, 1, n)
       IN  stdoutRun' = [stdoutRun EXCEPT !.fragments = Append(@, chunk),
                                          !.chunks = @ \o ChunksOf(chunk)]
    /\ UNCHANGED <<SessionVars, LocalVars, ProcessVars, ChildVars, RequestVars, pc, proc,
                   err, returned, emitted, yielded, exitCode, FilterVars, peers>>

SplitSpec == SplitInit /\ [][\E n \in 1..MaxBytes : DataEvent(n)]_vars

-----------------------------------------------------------------------------
(* A StreamingResponse under any sequence of calls and transport events.   *)

\* The number of frames and of end() calls of one such sequence
MaxWrites == 3
MaxEnds == 2

Payloads ==
    { createStreamingChunk(RoleDelta, "null"),
      createStreamingChunk(ContentDelta(<<"a">>), "null"),
      createStreamingChunk(NoDelta, "stop"),
      ErrorData("ExitCode") }

CallApi(S) ==
    /\ pc = "idle"
    /\ Len(frames) < MaxWrites
    /\ Len(endCalls) < MaxEnds
    /\ SetSession(S)
    /\ UNCHANGED <<LocalVars, ProcessVars, pc, proc, err, returned, emitted, yielded,
                   exitCode>>
    /\ UNCHANGED <<ChildVars, RequestVars>>
    /\ UNCHANGED <<FilterVars, peers, stdoutRun>>
CallWrite == \E d \in Payloads, t \in BOOLEAN : CallApi(Write(Session, d, t))

CallWriteChunk ==
    \E d \in {RoleDelta, ContentDelta(<<"b">>), NoDelta}, r \in {"null", "stop"},
       t \in BOOLEAN :
        CallApi(WriteChunk(Session, d, r, t))

CallWriteError ==
    \E e \in {"ErrorChunk", "NoOutput"}, t \in BOOLEAN : CallApi(WriteError(Session, e, t))

CallEnd == \E o \in EndOutcomes : CallApi(End(Session, "caller", o))

\* The listeners setupCleanup registers: res emits 'close' or 'error'
TransportEvent ==
    /\ pc = "idle"
    /\ ~closed
    /\ closed' = TRUE
    /\ transportFault' = TRUE
    /\ UNCHANGED <<sentData, frames, resEnded, lastRet, refused, endCalls, LocalVars,
                   ProcessVars,
                   pc, proc, err, returned, emitted, yielded, exitCode>>
    /\ UNCHANGED <<ChildVars, RequestVars>>
    /\ UNCHANGED <<FilterVars, peers, stdoutRun>>
SessionNext ==
    \/ CallWrite
    \/ CallWriteChunk
    \/ CallWriteError
    \/ CallEnd
    \/ TransportEvent

SessionSpec == Init /\ [][SessionNext]_vars

-----------------------------------------------------------------------------
(* What the client received.                                               *)

IsRole(f) == f.kind = "chunk" /\ "role" \in f.delta.keys
IsContent(f) == f.kind = "chunk" /\ f.delta.keys = {"content"}
IsToolCalls(f) == f.kind = "chunk" /\ "tool_calls" \in f.delta.keys
IsStop(f) == f.kind = "chunk" /\ f.finish_reason = "stop"
IsError(f) == f.kind = "error"
IsDone(f) == f.kind = "done"
IsFallback(f) == IsContent(f) /\ f.delta.content = FallbackMessage

Count(P(_), fs) == Cardinality({i \in 1..Len(fs) : P(fs[i])})

\* The content strings of the content deltas, concatenated in write order
RECURSIVE ContentOf(_)
ContentOf(fs) ==
    IF fs = <<>> THEN <<>>
    ELSE (IF IsContent(Head(fs)) THEN Head(fs).delta.content ELSE <<>>)
         \o ContentOf(Tail(fs))

\* processClaudeStream has returned its text
Returned == returned # <<>>

\* The lines stdout has emitted so far, blank ones included
OutputLines == Flatten(emitted)


-----------------------------------------------------------------------------
(* The claims.                                                             *)

\* Every content or tool-call delta comes after a role delta
RoleFirst ==
    \A i \in 1..Len(frames) :
        (IsContent(frames[i]) \/ IsToolCalls(frames[i]))
            => \E j \in 1..(i - 1) : IsRole(frames[j])

\* C1, as stated: whatever the generator yields, a finished request has written the
\* role delta exactly once, before any content or tool-call delta.  It fails even
\* with the transport open all along: a stream that fails before its first assistant
\* or tool-call chunk has no role delta.
C1_Original ==
    (pc = "done" /\ ~transportFault) => (Count(IsRole, frames) = 1 /\ RoleFirst)

\* C1, amended: the role delta is written at most once, before any content or
\* tool-call delta, and exactly once when processClaudeStream returns with the
\* transport open all along.
C1_RoleAtMostOnceAndFirst ==
    /\ Count(IsRole, frames) <= 1
    /\ RoleFirst
    /\ (Returned /\ ~transportFault) => Count(IsRole, frames) = 1

C1_Witness ==
    /\ Returned
    /\ ~transportFault
    /\ Count(IsContent, frames) = 2
    /\ Count(IsRole, frames) = 1
    /\ IsRole(frames[1])

\* The request completed normally: waitForExit saw code 0 and processClaudeStream
\* returned
CompletedNormally == pc = "done" /\ Returned /\ exitCode = 0

\* The stop delta is written once, right before the [DONE] frame, which is last
StopThenDone ==
    /\ Count(IsStop, frames) = 1
    /\ Len(frames) >= 2
    /\ IsStop(frames[Len(frames) - 1])
    /\ IsDone(frames[Len(frames)])

\* C2, as stated: every request that completes normally has exactly one stop delta,
\* the last delta before the [DONE] frame of the handler.
C2_Original == CompletedNormally => StopThenDone

\* C2, amended: so it is when the transport stayed open.
C2_OneStopBeforeDone == (CompletedNormally /\ ~transportFault) => StopThenDone

C2_Witness ==
    CompletedNormally /\ ~transportFault /\ StopThenDone /\ Count(IsContent, frames) > 0

\* C3, as stated: the text processClaudeStream returns is the concatenation of the
\* content deltas the client got.
C3_Original == Returned => returned[1] = ContentOf(frames)

\* C3, amended: so it is when the transport stayed open.
C3_ReturnedIsWritten == (Returned /\ ~transportFault) => returned[1] = ContentOf(frames)

C3_Witness ==
    /\ Returned
    /\ ~transportFault
    /\ Count(IsContent, frames) = 2
    /\ returned[1] = <<"c", "H", "i">>

\* C4: an error with the session open gives one error payload, before the stream
\* is ended, and the handler ends the stream.
C4_OneErrorPayload ==
    (pc = "done" /\ err # "none" /\ ~transportFault)
        => /\ Count(IsError, frames) = 1
           /\ IsDone(frames[Len(frames)])
           /\ endCalls = <<"handler">>

\* No line of the output so far has text: stdout emitted nothing, or blank lines
NoOutputLines == \A i \in 1..Len(OutputLines) : IsBlank(OutputLines[i])

NoOutputErrors == {"NoOutput", "NoResponse"}

\* C5: without an output line no content delta is written, and after a clean exit
\* the request fails with the no-output error.
C5_NoOutputFails ==
    NoOutputLines
        => /\ Count(IsContent, frames) = 0
           /\ (pc = "done" /\ exitCode = 0) => err \in NoOutputErrors

C5_Witness ==
    /\ pc = "done"
    /\ exitCode = 0
    /\ emitted = <<>>
    /\ err = "NoOutput"
    /\ Count(IsError, frames) > 0

\* A line whose type marker is system, result or user
IsSystemLine(line) == line.j = "object" /\ line.type \in {"system", "result", "user"}

\* A line that holds an empty or whitespace-only JSON string
IsEmptyStringLine(line) == line.j = "string" /\ Trim(line.text) = <<>>

RoleStopDone ==
    /\ Len(frames) = 3
    /\ IsRole(frames[1])
    /\ IsStop(frames[2]) /\ ~IsRole(frames[2])
    /\ IsDone(frames[3])
    /\ err = "none"

\* C6, as stated: the output has lines, each System or Empty (blank or
\* whitespace-only), and the exit is clean; then the stream is the role delta, the
\* stop delta and [DONE].  It fails even with the transport open: blank lines are
\* no chunks.
C6_Original ==
    ( /\ pc = "done"
      /\ exitCode = 0
      /\ ~transportFault
      /\ OutputLines # <<>>
      /\ \A i \in 1..Len(OutputLines) :
            \/ IsSystemLine(OutputLines[i])
            \/ IsBlank(OutputLines[i])
            \/ IsEmptyStringLine(OutputLines[i]) )
        => RoleStopDone

\* C6, amended: the output has a line that is not blank, every such line is System
\* or an empty string, the exit is clean and the transport stayed open.
C6_SystemOnlyStream ==
    ( /\ pc = "done"
      /\ exitCode = 0
      /\ ~transportFault
      /\ ~NoOutputLines
      /\ \A i \in 1..Len(OutputLines) :
            \/ IsSystemLine(OutputLines[i])
            \/ IsBlank(OutputLines[i])
            \/ IsEmptyStringLine(OutputLines[i]) )
        => RoleStopDone

C6_Witness ==
    /\ pc = "done"
    /\ exitCode = 0
    /\ ~transportFault
    /\ emitted = <<<<SystemLine>>, <<WhitespaceStringLine>>>>
    /\ yielded = emitted
    /\ RoleStopDone

\* The chunk sequence has ended with the role delta sent and no content or
\* tool-call delta, and processClaudeStream runs its last part
EndsWithRoleOnly ==
    /\ pc = "afterLoop"
    /\ pc' # "afterLoop"
    /\ Count(IsRole, frames) = 1
    /\ Count(IsContent, frames) = 0
    /\ Count(IsToolCalls, frames) = 0

\* The fallback message is written as one content delta, and returned
FallbackWritten ==
    /\ Count(IsContent, frames') = 1
    /\ Count(IsFallback, frames') = 1
    /\ returned' = <<FallbackMessage>>

\* C7, as stated: role sent, no content and no tool calls sent when the sequence
\* ends; then the fallback message is written once and returned.
C7_Original == [][EndsWithRoleOnly => FallbackWritten]_vars

\* C7, amended: so it is when the transport stays open.
C7_FallbackOnce == [][(EndsWithRoleOnly /\ ~transportFault') => FallbackWritten]_vars

C7_Witness ==
    /\ Returned
    /\ ~transportFault
    /\ returned = <<FallbackMessage>>
    /\ Count(IsFallback, frames) = 1
    /\ Count(IsContent, frames) = 1

\* The generator has ended or thrown, or the loop was left
StreamTerminated == pc \in {"afterLoop", "pcsCatch", "handlerCatch", "finally", "done"}

\* [DONE] is written once, last, right after the stop delta or an error payload
DoneIsLast ==
    \A i \in 1..Len(frames) :
        IsDone(frames[i])
            => /\ i = Len(frames)
               /\ i > 1
               /\ IsStop(frames[i - 1]) \/ IsError(frames[i - 1])

\* C8: with the transport open, a request whose chunk stream terminates gets
\* [DONE] once, as its last frame, after the stop delta or an error payload.
C8_AlwaysDone ==
    /\ []DoneIsLast
    /\ [](pc = "done" /\ ~transportFault => Count(IsDone, frames) = 1)
    /\ StreamTerminated ~> (transportFault \/ (pc = "done" /\ Count(IsDone, frames) = 1))

C8_Witness ==
    /\ pc = "done"
    /\ ~transportFault
    /\ Count(IsDone, frames) = 1
    /\ Count(IsError, frames) > 0

\* C9: once closed, nothing more reaches the transport, and the calls that write
\* return false.
C9_ClosedIsSilent ==
    [][closed => /\ frames' = frames
                 /\ resEnded' = resEnded
                 /\ closed'
                 /\ lastRet' \in {lastRet, "false"}]_vars

C9_Witness ==
    /\ closed
    /\ lastRet = "false"
    /\ Len(endCalls) = 2
    /\ Len(frames) = 2
    /\ ~IsDone(frames[2])

\* executeStreaming is in its loop over the adapter, or has seen the adapter end
Iterating == pc \in {"awaitData", "lines", "stdoutEnded", "awaitExit"}

ObservesDisconnect == pc = "lines" /\ lines # <<>> /\ closed

\* The loop was left with the session closed
LeftClosed == pc \in {"afterLoop", "pcsCatch", "handlerCatch", "finally"} /\ closed

\* C11, as stated: from the chunk at which the disconnect is observed on, no call of
\* write is made.  The code after the loop still calls writeChunk (fallback or
\* role, and the final chunk), which the closed session refuses.
C11_Original ==
    [][((ObservesDisconnect \/ LeftClosed) /\ ~refused) => ~refused']_vars

\* C11, amended: the step that observes the disconnect leaves the loop without any
\* call of write, and from then on no chunk is pulled and no frame reaches the
\* transport.
C11_StopsOnDisconnect ==
    /\ [][ObservesDisconnect
            => /\ pc' = "afterLoop"
               /\ lines' = <<>>
               /\ frames' = frames
               /\ refused' = refused
               /\ lastRet' = lastRet]_vars
    /\ [][LeftClosed
            => /\ pc' \notin {"lines", "awaitData"}
               /\ yielded' = yielded
               /\ frames' = frames]_vars

C11_Witness ==
    /\ pc = "afterLoop"
    /\ closed
    /\ ~refused
    /\ roleSent
    /\ chunkCount = 2
    /\ Len(frames) = 2
    /\ proc = "running"

\* C12: the pipeline sends no signal to the subprocess, whatever happens.
C12_NeverKills == signals = <<>>

\* The client has gone, the request is over and the child still runs
C12_Witness ==
    /\ pc = "done"
    /\ transportFault
    /\ closed
    /\ proc = "running"
    /\ ~isRunning
    /\ signals = <<>>

\* The request is over
RequestOver == pc \in {"done", "crashed", "answered", "rejected"}

\* C13: when the request is over, a system-prompt file that was created has been
\* through cleanupSystemPromptFile.
C13_FileCleanedUp == RequestOver => promptFile # "exists"

\* The subprocess exited with a code other than 0 after it wrote output
ExitAfterOutput == pc \in {"done", "answered"} /\ exitCode = 1 /\ emitted # <<>>

\* The error payloads come after every delta and right before [DONE], which is
\* last, and there is no stop delta
ErrorThenDone ==
    /\ Count(IsError, frames) > 0
    /\ Count(IsStop, frames) = 0
    /\ Len(frames) > 0 /\ IsDone(frames[Len(frames)])
    /\ \A i, j \in 1..Len(frames) :
          (IsError(frames[i]) /\ frames[j].kind = "chunk") => j < i

C15_SpawnFailureSurfaces ==
    proc = "spawnFailed" => (err = "SpawnFailed" /\ pc # "crashed")

\* C19: a request with tools or functions is answered with one 400 response;
\* no subprocess is spawned and no event-stream headers are sent.
C19_ToolsRejected ==
    (pc # "idle" /\ (request.tools > 0 \/ request.functions > 0))
        => /\ response = <<sendError(400, "invalid_request_error")>>
           /\ pc = "rejected"
           /\ proc = "none"
           /\ ~headersSent
           /\ frames = <<>>
           /\ promptFile = "none"

C19_Witness ==
    /\ pc = "rejected"
    /\ request.stream
    /\ request.functions > 0
    /\ request.tools = 0
    /\ Len(response) = 1

ChunkTypes == {"system", "assistant_message", "tool_calls", "error", "unknown", "empty"}

\* normalizeClaudeChunk raises an exception on this value
ClassifyThrows(chunk) ==
    chunk.j \in {"object", "null"} /\ normalizeClaudeChunk(chunk).type = "THROWN"

C17_Idempotent == Len(filtered) = 2 => filtered[2] = filtered[1]

\* s has a match of the expression /open.*?close/, with '.' matching a newline
\* only when dotAll
HasMarker(s, open, close, dotAll) ==
    \E i \in 1..Len(s) : \E j \in (i + 1)..Len(s) :
        /\ s[i] = open
        /\ s[j] = close
        /\ dotAll \/ \A k \in (i + 1)..(j - 1) : s[k] # "nl"

MarkerFree(s) ==
    /\ ~HasMarker(s, "<function_calls>", "</antml:function_calls>", TRUE)
    /\ ~HasMarker(s, "<thinking>", "</antml:thinking>", TRUE)
    /\ ~HasMarker(s, "[Tool Use:", "]", FALSE)
    /\ ~HasMarker(s, "[File: ", "]", FALSE)

NonWhitespace(s) == SelectSeq(s, LAMBDA t : t \notin WS)

\* s has no leading or trailing whitespace and no run of whitespace with three
\* or more newlines
Tidy(s) ==
    /\ s # <<>> => (s[1] \notin WS /\ s[Len(s)] \notin WS)
    /\ \A i \in 1..Len(s) : \A j \in i..Len(s) :
         (\A k \in i..j : s[k] \in WS) => Cardinality({k \in i..j : s[k] = "nl"}) < 3

FilteredMarkerFree == filtered # <<>> /\ MarkerFree(filterInput)

IsTextEnvelope(line) ==
    /\ line.j = "object"
    /\ line.type = "assistant"
    /\ line.message.k = "object"
    /\ line.message.content.k = "array"
    /\ line.message.content.blocks # <<>>
    /\ \A i \in 1..Len(line.message.content.blocks) :
         LET b == line.message.content.blocks[i]
         IN  b.k = "object" /\ b.type = "text"

\* The texts of the blocks, one after the other in list order
RECURSIVE BlockTexts(_)
BlockTexts(bs) == IF bs = <<>> THEN <<>> ELSE Head(bs).text \o BlockTexts(Tail(bs))

ContentBearing(line) ==
    ~IsBlank(line) /\ ~IsSystemLine(line) /\ ~IsEmptyStringLine(line)

ContentLines == SelectSeq(OutputLines, ContentBearing)

\* The request is over with a clean exit and an open transport, and the one
\* content-bearing line of the output was a text envelope
OneTextEnvelope ==
    /\ pc = "done"
    /\ exitCode = 0
    /\ ~transportFault
    /\ Len(ContentLines) = 1
    /\ IsTextEnvelope(ContentLines[1])

EnvelopeText == BlockTexts(ContentLines[1].message.content.blocks)

\* The stream is the role delta, one content delta with t, the stop delta, [DONE]
RoleContentStop(t) ==
    /\ Len(frames) = 4
    /\ IsRole(frames[1])
    /\ IsContent(frames[2]) /\ frames[2].delta.content = t
    /\ IsStop(frames[3]) /\ ~IsRole(frames[3]) /\ ~IsContent(frames[3])
    /\ IsDone(frames[4])

\* C20, as stated: the one content delta carries the concatenation of the block texts
C20_Original == OneTextEnvelope => RoleContentStop(EnvelopeText)

\* C20, amended: the one content delta carries filterContent of the concatenation
\* of the block texts, when that is not empty
C20_FilteredConcatenation ==
    (OneTextEnvelope /\ filterContent(EnvelopeText) # <<>>)
        => /\ RoleContentStop(filterContent(EnvelopeText))
           /\ returned = <<filterContent(EnvelopeText)>>

C20_Witness ==
    /\ OneTextEnvelope
    /\ ContentLines = <<PaddedAssistantLine>>
    /\ Len(OutputLines) = 2
    /\ RoleContentStop(<<"H">>)

\* An assistant envelope whose content is a list of blocks (objects or strings),
\* at least one of them a tool_use block
IsToolEnvelope(line) ==
    /\ line.j = "object"
    /\ line.type = "assistant"
    /\ line.message.k = "object"
    /\ line.message.content.k = "array"
    /\ \A i \in 1..Len(line.message.content.blocks) :
         line.message.content.blocks[i].k \in {"object", "string"}
    /\ \E i \in 1..Len(line.message.content.blocks) :
         LET b == line.message.content.blocks[i]
         IN  b.k = "object" /\ b.type = "tool_use"

\* The calls of the tool_use blocks of a list, in list order: {id, name, arguments},
\* with a generated id for a block without one and "{}" for one without input
RECURSIVE CallsOf(_)
CallsOf(bs) ==
    IF bs = <<>> THEN <<>>
    ELSE LET b == Head(bs)
         IN  (IF b.k = "object" /\ b.type = "tool_use"
              THEN <<[id |-> IF b.id = "" THEN GeneratedId ELSE b.id, type |-> "function",
                      name |-> b.name,
                      arguments |-> IF b.input = "" THEN "{}" ELSE b.input]>>
              ELSE <<>>) \o CallsOf(Tail(bs))

\* C21: a tool envelope normalizes to one tool-calls chunk with the calls of all
\* its tool_use blocks in list order and no text; with the transport working, the
\* loop body writes the role delta if it is due and then one tool-call delta with
\* these calls, and no content delta.
C21_ToolEnvelope ==
    [][(pc = "lines" /\ lines # <<>> /\ ~closed /\ IsToolEnvelope(Head(lines))
            /\ ~transportFault')
        => LET calls == CallsOf(Head(lines).message.content.blocks)
               parsedChunk == parseClaudeChunk(parseClaudeOutput(Head(lines)))
               delta == [kind |-> "chunk", finish_reason |-> "null", message |-> "",
                         delta |-> [keys |-> {"tool_calls"}, content |-> <<>>,
                                    tool_calls |-> calls]]
           IN  /\ parsedChunk.type = "tool_calls"
               /\ parsedChunk.tool_calls = calls
               /\ ~Truthy(parsedChunk.content)
               /\ frames' = frames
                              \o (IF roleSent THEN <<>>
                                  ELSE <<createStreamingChunk(RoleDelta, "null")>>)
                              \o <<delta>>
               /\ assistantContent' = assistantContent
               /\ pc' = "lines"]_vars

C21_Witness ==
    /\ pc = "lines"
    /\ lines = <<>>
    /\ IsToolEnvelope(emitted[1][1])
    /\ Len(frames) = 2
    /\ IsRole(frames[1])
    /\ IsToolCalls(frames[2])
    /\ frames[2].delta.tool_calls =
         << [id |-> "t1", type |-> "function", name |-> "f", arguments |-> "{}"],
            [id |-> GeneratedId, type |-> "function", name |-> "g", arguments |-> "{}"] >>

\* C22: whatever the sequence of writes, ends and transport events on a session,
\* [DONE] is written at most once and the transport is ended at most once.
C22_EndIdempotent == Count(IsDone, frames) <= 1 /\ resEnded <= 1

\* The step is a call of end()
EndCalled == Len(endCalls') > Len(endCalls)

\* The step is a call of write, writeChunk or writeError that returned false
WriteFailed == endCalls' = endCalls /\ lastRet' = "false" /\ frames' = frames

\* C23: closed, once true, stays true; a call of end() and a failed write leave
\* the session closed.
C23_ClosedTerminal ==
    [][/\ closed => closed'
       /\ EndCalled => closed'
       /\ WriteFailed => closed']_vars

\* The text of the lines of a sequence that are not JSON, one after the other
RECURSIVE RawText(_)
RawText(ls) ==
    IF ls = <<>> THEN <<>>
    ELSE (IF Head(ls).j = "raw" THEN Head(ls).text ELSE <<>>) \o RawText(Tail(ls))

\* C24: whatever the interleaving of two requests, what a request has accumulated
\* and flagged comes from the lines of its own subprocess alone, every content
\* frame on its stream carries its own subprocess's text, and a step of one
\* request changes nothing that the other owns.
C24_RequestsIsolated ==
    /\ [](\A r \in Requesters :
            /\ peers[r].L.assistantContent = RawText(peers[r].handled)
            /\ peers[r].L.roleSent <=> RawText(peers[r].handled) # <<>>
            /\ peers[r].L.contentSent <=> RawText(peers[r].handled) # <<>>
            /\ peers[r].L.chunkCount
                 <= Len(peers[r].handled) + (IF peers[r].phase = "left" THEN 1 ELSE 0)
            /\ \A i \in 1..Len(peers[r].S.frames) :
                 IsContent(peers[r].S.frames[i])
                    => peers[r].S.frames[i].delta.content = PeerText(r))
    /\ [][\A r, q \in Requesters :
            (r # q /\ peers'[r] # peers[r]) => peers'[q] = peers[q]]_vars

C24_Witness ==
    /\ peers[1].L.assistantContent = <<"a", "a">>
    /\ peers[2].L.assistantContent = <<"b">>
    /\ peers[2].handled = <<SystemLine, Raw(<<"b">>)>>
    /\ Len(peers[1].S.frames) = 3
    /\ Len(peers[2].S.frames) = 2
    /\ ~peers[1].S.fault /\ ~peers[2].S.fault

\* C25: sentData is true exactly when a payload frame (a delta or an error payload,
\* not the [DONE] marker) has been written to the transport.
C25_SentDataIffPayload ==
    sentData <=> \E i \in 1..Len(frames) : frames[i].kind # "done"

C25_Witness ==
    /\ ~sentData
    /\ refused
    /\ frames = <<DoneFrame>>
    /\ resEnded = 1

\* A line whose type marker says that the subprocess has failed
IsFailureLine(line) == line.j = "object" /\ line.type = "error"

\* C26: a chunk with the failure type marker normalizes to an Error chunk, and the
\* loop is left by a throw: nothing more is consumed and no frame is written by
\* the loop body.
C26_FailureMarkerAborts ==
    [][(pc = "lines" /\ lines # <<>> /\ ~closed /\ IsFailureLine(Head(lines)))
        => /\ parseClaudeChunk(parseClaudeOutput(Head(lines))).type = "error"
           /\ pc' = "pcsCatch"
           /\ err' = "ErrorChunk"
           /\ lines' = <<>>
           /\ frames' = frames]_vars

\* C27: a line that is not JSON is yielded as {type: 'text', content: line} and
\* normalizes to assistant text with the line as its content, not to an Error
\* chunk; the loop body writes its filtered text, throws nothing and goes on to
\* the next line.
C27_RawLineNotFatal ==
    [][(pc = "lines" /\ lines # <<>> /\ ~closed /\ Head(lines).j = "raw")
        => LET line == Head(lines).text
               parsedChunk == parseClaudeChunk(JObj("text", Absent, Str(line), Absent))
           IN  /\ parsedChunk.type = "assistant_message"
               /\ parsedChunk.content = Str(line)
               /\ pc' = "lines"
               /\ lines' = Tail(lines)
               /\ err' = "none"
               /\ assistantContent' = assistantContent \o filterContent(line)
               /\ (~transportFault' /\ filterContent(line) # <<>>)
                    => /\ frames' # frames
                       /\ IsContent(frames'[Len(frames')])
                       /\ frames'[Len(frames')].delta.content = filterContent(line)]_vars

C27_Witness ==
    /\ emitted = <<<<RawLine>>, <<MixedLine>>>>
    /\ yielded = emitted
    /\ pc = "done"
    /\ err = "none"
    /\ ~transportFault
    /\ returned = <<<<"a", "c">>>>
    /\ Count(IsContent, frames) = 2

\* C28: a parsed object whose type marker is system, result or user is a System
\* chunk whatever else it carries; on a System, Empty or Unknown chunk the loop body
\* writes nothing and leaves roleSent, contentSent and the accumulated text alone.
C28_SystemFirstAndSilent ==
    [][(pc = "lines" /\ lines # <<>> /\ ~closed)
        => LET chunk == parseClaudeOutput(Head(lines))
               parsedChunk == parseClaudeChunk(chunk)
           IN  /\ (chunk.j = "object" /\ chunk.type \in {"system", "result", "user"})
                    => parsedChunk.type = "system"
               /\ parsedChunk.type \in {"system", "empty", "unknown"}
                    => /\ frames' = frames
                       /\ roleSent' = roleSent
                       /\ contentSent' = contentSent
                       /\ assistantContent' = assistantContent
                       /\ streamedContent' = streamedContent
                       /\ pc' = "lines"]_vars

C28_Witness ==
    /\ emitted = <<<<RawLine>>, <<ResultLine, Blank, RawLine>>>>
    /\ pc = "lines"
    /\ lines = <<RawLine>>
    /\ chunkCount = 2
    /\ Len(frames) = 2
    /\ roleSent /\ contentSent
    /\ assistantContent = <<"a">>

\* An assistant envelope whose content is a list of blocks (objects or strings),
\* none of them a tool_use block
IsBlockEnvelope(line) ==
    /\ line.j = "object"
    /\ line.type = "assistant"
    /\ line.message.k = "object"
    /\ line.message.content.k = "array"
    /\ \A i \in 1..Len(line.message.content.blocks) :
         LET b == line.message.content.blocks[i]
         IN  b.k = "string" \/ (b.k = "object" /\ b.type # "tool_use")

\* The text of a block list, in list order: of each block its text, else its
\* content, a content that is a block list giving the text of its blocks, and a
\* bare string itself (lists are nested once here)
FlatText(bs) ==
    LET One(b) == IF b.k = "string" \/ b.text # <<>> THEN b.text ELSE b.content
        Texts1(ns) == [i \in 1..Len(ns) |-> One(ns[i])]
        Text(b) == IF b.k = "string" THEN b.text
                   ELSE IF b.text # <<>> THEN b.text
                   ELSE IF b.content # <<>> THEN b.content
                   ELSE Flatten(Texts1(b.nested))
    IN  Flatten([i \in 1..Len(bs) |-> Text(bs[i])])

\* C29: the text extracted from the block list of an envelope is the text of its
\* blocks in list order, a nested block list contributing the text of its blocks.
C29_ExtractContent ==
    [][(pc = "lines" /\ lines # <<>> /\ ~closed /\ IsBlockEnvelope(Head(lines))
            /\ FlatText(Head(lines).message.content.blocks) # <<>>)
        => LET parsedChunk == parseClaudeChunk(parseClaudeOutput(Head(lines)))
           IN  /\ parsedChunk.type = "assistant_message"
               /\ parsedChunk.content = Str(FlatText(Head(lines).message.content.blocks))
               /\ assistantContent' =
                    filterContent(FlatText(Head(lines).message.content.blocks))]_vars

\* C30: on a tool-calls chunk the loop body marks role and content as sent and,
\* with the transport working, writes the role delta if it was not sent yet and
\* then one delta with the tool-call list as parsed; a stream that holds a
\* tool-call delta holds no fallback message.
C30_ToolCallDelta ==
    /\ [](\A i, j \in 1..Len(frames) : IsToolCalls(frames[i]) => ~IsFallback(frames[j]))
    /\ [][(pc = "lines" /\ lines # <<>> /\ ~closed
             /\ parseClaudeChunk(parseClaudeOutput(Head(lines))).type = "tool_calls")
            => LET calls == parseClaudeChunk(parseClaudeOutput(Head(lines))).tool_calls
               IN  /\ roleSent'
                   /\ contentSent'
                   /\ assistantContent' = assistantContent
                   /\ ~transportFault'
                        => frames' = frames
                             \o (IF roleSent THEN <<>>
                                 ELSE <<createStreamingChunk(RoleDelta, "null")>>)
                             \o <<createStreamingChunk(ToolCallsDelta(calls), "null")>>]_vars

C30_Witness ==
    /\ pc = "done"
    /\ err = "none"
    /\ ~transportFault
    /\ emitted = <<<<DirectToolCallsLine>>>>
    /\ Len(frames) = 4
    /\ IsRole(frames[1])
    /\ IsToolCalls(frames[2])
    /\ frames[2].delta.tool_calls = DirectToolCallsLine.tool_calls.calls
    /\ IsStop(frames[3])
    /\ IsDone(frames[4])

\* C31, as stated: what the callback was called with is, in order, what the content
\* deltas on the client's stream carry, and is the text processClaudeStream returns.
C31_Original ==
    /\ streamedContent = ContentOf(frames)
    /\ Returned => streamedContent = returned[1]

\* C31, amended: what the callback was called with is the text accumulated so far
\* and the text processClaudeStream returns; it is what the content deltas on the
\* client's stream carry as long as the transport has not failed or closed.
C31_CallbackFollowsContent ==
    /\ streamedContent = assistantContent
    /\ Returned => streamedContent = returned[1]
    /\ ~transportFault => streamedContent = ContentOf(frames)

C31_Witness ==
    /\ Returned
    /\ ~transportFault
    /\ emitted = <<<<RawLine>>, <<MixedLine>>>>
    /\ streamedContent = <<"a", "c">>
    /\ Count(IsContent, frames) = 2
    /\ pc = "done"

IsPrefix(a, b) == Len(a) <= Len(b) /\ SubSeq(b, 1, Len(a)) = a

\* C32: across every step roleSent and contentSent stay true once true, the chunk
\* count does not decrease and the accumulated text keeps the previous text as a
\* prefix; contentSent implies roleSent.
C32_StateMovesForward ==
    /\ [](contentSent => roleSent)
    /\ [][(roleSent => roleSent')
           /\ (contentSent => contentSent')
           /\ chunkCount' >= chunkCount
           /\ IsPrefix(assistantContent, assistantContent')]_vars

C32_Witness ==
    /\ pc = "lines"
    /\ chunkCount = 3
    /\ roleSent /\ contentSent
    /\ assistantContent = <<"a", "a">>
    /\ emitted = <<<<RawLine>>, <<ResultLine, Blank, RawLine>>>>


\* C33: a request answered over plain HTTP (a refused body, tools, or a
\* non-streaming completion) never has two responses, has exactly one once it is
\* over or its subprocess has finished, and that one is the 200 completion exactly
\* when the subprocess was spawned and closed with code 0; otherwise it is an error
\* response with a status and a type tag.
PlainRequest == pc # "idle" /\ ~request.stream

ErrorTypes == {"validation_error", "invalid_request_error", "internal_error"}

C33_OneResponse ==
    PlainRequest
        => /\ Len(response) <= 1
           /\ (pc \in {"rejected", "answered"} \/ proc \in {"closed", "spawnFailed"})
                => Len(response) = 1
           /\ Len(response) = 1
                => IF err = "none" /\ exitCode = 0
                   THEN response[1] = [status |-> 200, type |-> "chat.completion"]
                   ELSE /\ response[1].status \in {400, 422, 500}
                        /\ response[1].type \in ErrorTypes

C33_Witness ==
    /\ PlainRequest
    /\ proc = "closed"
    /\ err = "SpawnFailed"
    /\ response = <<[status |-> 500, type |-> "internal_error"]>>

C33_WitnessCompletion ==
    /\ PlainRequest
    /\ proc = "closed"
    /\ exitCode = 0
    /\ Len(emitted) = 2
    /\ response = <<[status |-> 200, type |-> "chat.completion"]>>


HasStop == Count(IsStop, frames) > 0

C35_StopAfterCleanExit ==
    HasStop => (proc = "closed" /\ exitCode = 0 /\ err = "none")

C35_Witness ==
    /\ HasStop
    /\ proc = "closed"
    /\ exitCode = 0
    /\ emitted = <<<<RawLine>>>>
    /\ pc = "done"


\* C36: the chunks executeStreaming yields depend on the text of stdout only: once
\* the whole text is delivered, in 'data' events of whatever sizes, the chunks are
\* those of the run that delivers the text in one 'data' event.
C36_BoundaryIndependent ==
    Flatten(stdoutRun.fragments) = stdoutRun.written
        => stdoutRun.chunks = ChunksOf(stdoutRun.written)

=============================================================================
